---- MODULE Spec2Model ----
(***************************************************************************)
(* PyWaterBal: the one-dimensional soil water balance of soilwater.py      *)
(* (SoilLayer, SoilWater) as a state machine.                              *)
(*                                                                         *)
(* Numbers.  The program computes with Python floats.  Here a float is a   *)
(* fixed-point integer counting millionths: 0.005 is 5000, 1.0 is ONE.     *)
(* Sums and differences are exact; a product or a quotient is rounded      *)
(* down to the next millionth (Mul, Div).  math.log, math.exp and ** are   *)
(* computed by series on the same representation (Ln, Exp, Pow).  TLC      *)
(* integers are 32 bits wide, so every operator below keeps its            *)
(* intermediate values under 2^31.                                         *)
(***************************************************************************)
EXTENDS Integers, Sequences, FiniteSets, TLC

ONE == 1000 * 1000

Max(a, b) == IF a >= b THEN a ELSE b

Min(a, b) == IF a <= b THEN a ELSE b

\* floor(af * bf / ONE) for 0 <= af, bf < ONE, by three-digit limbs.
MulFrac(af, bf) ==
    LET a1 == af \div 1000
        a0 == af % 1000
        b1 == bf \div 1000
        b0 == bf % 1000
    IN  a1 * b1 + ((a1 * b0 + a0 * b1) * 1000 + a0 * b0) \div ONE

\* a * b of two floats: floor(a * b / ONE), exactly.
Mul(a, b) ==
    LET a2 == a \div ONE
        af == a % ONE
        b2 == b \div ONE
        bf == b % ONE
    IN  a2 * b2 * ONE + a2 * bf + af * b2 + MulFrac(af, bf)

RECURSIVE DivDigits(_, _, _, _)
\* n more decimal digits of r / b, appended to q (0 <= r < b < 2^31 / 10).
DivDigits(r, b, q, n) ==
    IF n = 0 THEN q
    ELSE DivDigits((r * 10) % b, b, q * 10 + (r * 10) \div b, n - 1)

\* floor(a * ONE / b) for b > 0.  A divisor too wide for the digit loop is
\* first shortened by one decimal digit, together with the dividend.
DivPos(a, b) ==
    LET wide == b >= 200 * ONE
        aa == IF wide THEN a \div 10 ELSE a
        bb == IF wide THEN b \div 10 ELSE b
    IN  (aa \div bb) * ONE + DivDigits(aa % bb, bb, 0, 6)

\* a / b of two floats, b # 0 (the callers raise ZeroDivisionError first).
Div(a, b) == IF b < 0 THEN DivPos(-a, -b) ELSE DivPos(a, b)

\* ln 2 in millionths.
Ln2 == 693147

RECURSIVE LnReduce(_, _)
\* x = m * 2^k with 0.75 <= m < 1.5: the pair <<m, k>>.
LnReduce(x, k) ==
    IF x >= 1500000 THEN LnReduce(x \div 2, k + 1)
    ELSE IF x < 750000 THEN LnReduce(x * 2, k - 1)
    ELSE <<x, k>>

\* 2 atanh(z) by its series in z2 = z * z.
Atanh2(z, z2) ==
    LET s5 == ONE \div 11
        s4 == ONE \div 9 + Mul(z2, s5)
        s3 == ONE \div 7 + Mul(z2, s4)
        s2 == ONE \div 5 + Mul(z2, s3)
        s1 == ONE \div 3 + Mul(z2, s2)
        s0 == ONE + Mul(z2, s1)
    IN  2 * Mul(z, s0)

\* ln(m * 2^k) = 2 atanh(z) + k ln 2 for z = (m - 1) / (m + 1).
LnParts(z, k) == Atanh2(z, Mul(z, z)) + k * Ln2

\* math.log(x) for x > 0.
Ln(x) ==
    LET mk == LnReduce(x, 0)
    IN  LnParts(Div(mk[1] - ONE, mk[1] + ONE), mk[2])

RECURSIVE Pow2(_)
Pow2(n) == IF n = 0 THEN 1 ELSE 2 * Pow2(n - 1)

\* The largest float of the representation (2^31 millionths is about 2147).
FloatMax == 2000 * ONE

\* math.exp(y): y = n ln 2 + r with |r| <= ln(2)/2, e^r by its Taylor series,
\* then the shift by 2^n.  A result beyond FloatMax saturates there; a
\* result under one millionth is 0.
Exp(y) ==
    LET n  == (2 * y + Ln2) \div (2 * Ln2)
        r  == y - n * Ln2
        t8 == ONE + r \div 8
        t7 == ONE + Mul(r, t8) \div 7
        t6 == ONE + Mul(r, t7) \div 6
        t5 == ONE + Mul(r, t6) \div 5
        t4 == ONE + Mul(r, t5) \div 4
        t3 == ONE + Mul(r, t4) \div 3
        t2 == ONE + Mul(r, t3) \div 2
        er == ONE + Mul(r, t2)
    IN  IF n > 10 THEN FloatMax
        ELSE IF n < -30 THEN 0
        ELSE Min(FloatMax, (er * Pow2(Max(n, 0))) \div Pow2(Max(-n, 0)))

\* x ** y for x > 0.
Pow(x, y) == Exp(Mul(y, Ln(x)))

\* A float power of a negative float is a Python complex number.  The
\* representation has no complex numbers: this value, which no float of the
\* model takes, stands for every one of them.
Complex == -FloatMax

(***************************************************************************)
(* SoilLayer.  A layer is a record of the attributes of SoilLayer.__init__ *)
(* (soilwater.py 113-128).  prev and next hold the neighbour's index in    *)
(* SoilWater.layers, 0 standing for None.  lnk is math.log(k): the         *)
(* fixed-point k of a dry layer underflows to 0 where the float is tiny    *)
(* but positive, so the logarithm the code takes of k is carried with it.  *)
(***************************************************************************)
Texture(clay, sand, om) == [clay |-> clay, sand |-> sand, om |-> om]

SWC(sat, fc, pwp, psd, porosity, airentry) ==
    [sat |-> sat, fc |-> fc, pwp |-> pwp, psd |-> psd,
     porosity |-> porosity, airentry |-> airentry]

RootZone(wc, vwc, critical, sat, fc, pwp) ==
    [wc |-> wc, vwc |-> vwc, critical |-> critical,
     sat |-> sat, fc |-> fc, pwp |-> pwp]

ActualET(crop, soil) == [crop |-> crop, soil |-> soil]

Fluxes(t, e, influx, outflux, netflux) ==
    [t |-> t, e |-> e, influx |-> influx, outflux |-> outflux,
     netflux |-> netflux]

FluxFields == {"t", "e", "influx", "outflux", "netflux"}

\* SoilLayer.__init__: every attribute 0.0, no neighbours.
SoilLayer ==
    [thick |-> 0, texture |-> Texture(0, 0, 0), vwc |-> 0, wc |-> 0,
     accthick |-> 0, depth |-> 0, swc |-> SWC(0, 0, 0, 0, 0, 0),
     ksat |-> 0, k |-> 0, lnk |-> 0, matric |-> 0, gravity |-> 0,
     fluxes |-> Fluxes(0, 0, 0, 0, 0), prev |-> 0, next |-> 0]

\* Lines 163-164, 167-168 and 171-172: n1 + n2 for the coefficients cf of
\* s, c, om, s * om, c * om, s * c and the constant.
Regression(cf, s, c, om) ==
    (Mul(cf[1], s) + Mul(cf[2], c) + Mul(cf[3], om))
    + (Mul(cf[4], Mul(s, om)) + Mul(cf[5], Mul(c, om))
       + Mul(cf[6], Mul(s, c)) + cf[7])

\* Line 165: theta1500 from theta1500t.
Theta1500(t) == t + (Mul(140000, t) - 20000)

\* Line 169: theta33 from theta33t.
Theta33(t) == t + (Mul(1283000, Mul(t, t)) - Mul(374000, t) - 15000)

\* Line 173: theta_s33 from theta_s33t.
ThetaS33(t) == t + Mul(636000, t) - 107000

\* Line 174: theta0.
Theta0(theta33, theta_s33, s) == theta33 + theta_s33 - Mul(97000, s) + 43000

\* Lines 157-174 for sand and clay as fractions: the regression values
\* before calibration.
Moisture(s, c, theta1500, theta33, theta_s33) ==
    [s |-> s, c |-> c, theta1500 |-> theta1500, theta33 |-> theta33,
     theta0 |-> Theta0(theta33, theta_s33, s)]

\* Saxton & Rawls (2008), step 2a of initialize_layer, from the texture in
\* percent.
SaxtonRawls(texture) ==
    LET c  == texture.clay \div 100
        s  == texture.sand \div 100
        om == texture.om
    IN  Moisture(s, c,
          Theta1500(Regression(<<-24000, 487000, 6000, 5000, -13000, 68000,
                                 31000>>, s, c, om)),
          Theta33(Regression(<<-251000, 195000, 11000, 6000, -27000, 452000,
                               299000>>, s, c, om)),
          ThetaS33(Regression(<<278000, 34000, 22000, -18000, -27000,
                                -584000, 78000>>, s, c, om)))

\* The exception steps 2b to 3 raise for the regression values r, or
\* "none": math.log of a non-positive water content, a zero divisor.
RegressionError(r) ==
    IF r.theta33 <= 0 \/ r.theta1500 <= 0 THEN "ValueError"
    ELSE IF Ln(r.theta33) = Ln(r.theta1500) THEN "ZeroDivisionError"
    ELSE "none"

\* The exception initialize_layer raises for a texture, or "none".
TextureError(texture) == RegressionError(SaxtonRawls(texture))

\* The three water contents of the SWC tuple are kept to five places, which
\* makes their product with a thickness given in tenths of a metre exact, as
\* it is within one unit in the last place for the floats of the source: a
\* layer that is clipped to saturation then holds exactly swc.sat.
Places5(x) == (x \div 10) * 10

\* Lines 186-188: the calibration cal * theta * (1 - theta).
Calibrated(cal, theta) == Places5(Mul(Mul(cal, theta), ONE - theta))

\* Line 183: the air-entry suction (kPa) from aet.
AirEntry(aet) ==
    Max(0, aet + (Mul(20000, Mul(aet, aet)) - Mul(113000, aet) - 700000))

\* Lines 180-182: aet from sand, clay and the available water awc.
AirEntryT(s, c, awc) ==
    (Mul(-21674000, s) - Mul(27932000, c)
     - Mul(81975000, awc) + Mul(71121000, Mul(s, awc)))
    + (Mul(8294000, Mul(c, awc)) + Mul(14050000, Mul(s, c)) + 27161000)

\* Lines 175-177: the pore size distribution index.
PoreSize(theta33, theta1500) ==
    Div(ONE, Div(Ln(1500 * ONE) - Ln(33 * ONE), Ln(theta33) - Ln(theta1500)))

\* Line 189: the SWC tuple, saturation standing for the porosity too.
SWCOf(sat, fc, pwp, psd, ae) == SWC(sat, fc, pwp, psd, sat, ae)

\* Steps 2b-2d of initialize_layer for the regression values r.
RegressionSWC(r) ==
    SWCOf(Calibrated(2225000, r.theta0), Calibrated(1605000, r.theta33),
          Calibrated(1528000, r.theta1500),
          PoreSize(r.theta33, r.theta1500),
          AirEntry(AirEntryT(r.s, r.c, r.theta0 - r.theta33)))

\* Steps 2a-2d of initialize_layer: the SWC tuple of a texture.
LayerSWC(texture) == RegressionSWC(SaxtonRawls(texture))

\* Step 3 of initialize_layer: 1930 * awc ** (3 - psd) * 24 / 1000, the
\* factor 1930 * 24 / 1000 = 46.32 taken first to stay in range (awc # 0).
\* A negative available water makes the power, and ksat, complex.
Ksat(awc, psd) ==
    IF awc < 0 THEN Complex ELSE Mul(46320000, Pow(awc, 3 * ONE - psd))

\* The saturated conductivity for the regression values r.
RegressionKsat(r) ==
    Ksat(r.theta0 - r.theta33, PoreSize(r.theta33, r.theta1500))

LayerKsat(texture) == RegressionKsat(SaxtonRawls(texture))

\* Step 4 of initialize_layer with a code out of range taken to the nearest
\* end of the range instead of to field capacity.
SpecialCodeClamped(vwcin, swc) ==
    LET vwc == Max(ONE, Min(3 * ONE, -vwcin))
    IN  IF vwc <= 2 * ONE
          THEN swc.sat - Mul(vwc - ONE, swc.sat - swc.fc)
        ELSE swc.fc - Mul(vwc - 2 * ONE, swc.fc - swc.pwp)

\* Step 4 of initialize_layer: the water content a special (negative) code
\* stands for; called with vwc < 0.
SpecialCode(vwcin, swc) ==
    LET vwc == -vwcin
        fc  == swc.fc
    IN  IF ONE <= vwc /\ vwc <= 2 * ONE
          THEN swc.sat - Mul(vwc - ONE, swc.sat - fc)
        ELSE IF 2 * ONE < vwc /\ vwc <= 3 * ONE
          THEN fc - Mul(vwc - 2 * ONE, fc - swc.pwp)
        ELSE fc

\* Lines 225-232: the matric suction hm (m) before line 234.
Suction(self) ==
    IF self.vwc >= self.swc.fc
      THEN (33 * ONE
            - Div(Mul(33 * ONE - self.swc.airentry, self.vwc - self.swc.fc),
                  self.swc.sat - self.swc.fc)) \div 10
    ELSE LET b == Div(ONE, self.swc.psd)
         IN  Mul(Exp(3496508 + Mul(b, Ln(self.swc.fc))),
                 Pow(Max(50000, self.vwc), -b)) \div 10

\* ksat * f for f >= 0; a product beyond FloatMax saturates there.
Scaled(ksat, f) ==
    IF (ksat \div ONE + 1) * (f \div ONE + 1) >= FloatMax \div ONE
      THEN FloatMax
    ELSE Mul(ksat, f)

\* Lines 240-245: k, and ln k beside it, for the ratio vwc / sat # 0, the
\* exponent p and ln ksat.  k is complex when ksat is, and when a negative
\* ratio is raised to the power p.
Conductivity(self, unsaturated, ratio, p, lnksat) ==
    IF self.ksat = Complex \/ (unsaturated /\ ratio < 0)
      THEN [self EXCEPT !.k = Complex, !.lnk = 0]
    ELSE [self EXCEPT !.k = IF unsaturated
                              THEN Scaled(self.ksat, Pow(ratio, p))
                            ELSE self.ksat,
                      !.lnk = IF unsaturated THEN lnksat + Mul(p, Ln(ratio))
                              ELSE lnksat]

\* SetHeads with the gravity head added to the one the layer has instead of
\* set to the depth (line 237).
SetHeadsAdding(self, matric) ==
    Conductivity([self EXCEPT !.matric = matric,
                              !.gravity = self.gravity + self.depth],
                 matric > self.swc.airentry \div 10,
                 Div(self.vwc, self.swc.sat),
                 3 * ONE + Div(2 * ONE, self.swc.psd),
                 IF self.ksat = Complex THEN 0 ELSE Ln(self.ksat))

\* Lines 234-245 for the matric head of line 234.
SetHeads(self, matric) ==
    Conductivity([self EXCEPT !.matric = matric, !.gravity = self.depth],
                 matric > self.swc.airentry \div 10,
                 Div(self.vwc, self.swc.sat),
                 3 * ONE + Div(2 * ONE, self.swc.psd),
                 IF self.ksat = Complex THEN 0 ELSE Ln(self.ksat))

\* SoilLayer.update_heads_k: matric and gravity head, then k (and ln k).
update_heads_k(self) == SetHeads(self, Max(0, Suction(self)))

\* SoilLayer.tothead
tothead(self) == self.matric + self.gravity

\* Steps 1 and 4 of initialize_layer, with the swc and ksat of steps 2, 3.
SetLayer(self, prevlayer, previdx, nextidx, acc, swc, ksat) ==
    LET d    == (prevlayer.thick + self.thick) \div 2
        vwc  == IF self.vwc < 0 THEN SpecialCode(self.vwc, swc) ELSE self.vwc
        wc   == IF self.vwc < 0 THEN Mul(vwc, self.thick) * 1000 ELSE self.wc
    IN  [self EXCEPT !.prev = previdx, !.next = nextidx,
                     !.accthick = self.thick + prevlayer.accthick,
                     !.depth = acc + d,
                     !.swc = swc,
                     !.ksat = ksat,
                     !.vwc = vwc,
                     !.wc = wc]

\* SoilLayer.initialize_layer, for a texture that raises nothing: `self` has
\* thick, vwc, wc and texture set by SoilWater.__init__; prevlayer is the
\* initialized layer above or SoilLayer for None; acc is SoilLayer.__accdepth.
initialize_layer(self, prevlayer, previdx, nextidx, acc) ==
    update_heads_k(SetLayer(self, prevlayer, previdx, nextidx, acc,
                            LayerSWC(self.texture), LayerKsat(self.texture)))

(***************************************************************************)
(* SoilWater.  The instance is the record `sw` of the attributes set by    *)
(* SoilWater.__init__; pf and prz are the proxies __pf and __prz.          *)
(***************************************************************************)
ZeroFluxes(n) == [idx \in 1..n |-> Fluxes(0, 0, 0, 0, 0)]

\* SoilWater.net_rainfall (mm/day)
net_rainfall(rain, lai) ==
    LET fraction == Max(800000, Mul(267000, lai))
    IN  Mul(fraction, rain)

\* Root growth per day (m): soilwater.py 334.
RootGrowth == 8000

\* _rooting_depth without the limit of line 336: the roots grow on.
_rooting_depth_unlimited(self) == self.rootdepth + RootGrowth

\* SoilWater._rooting_depth
_rooting_depth(self) ==
    LET newdepth   == self.rootdepth + RootGrowth
        depthlimit == self.layers[Len(self.layers)].accthick
    IN  Min(newdepth, depthlimit)

RECURSIVE RootZoneLoop(_, _, _, _)
\* The loop of _rootzone_water from layer idx on; acc holds wc, wcsat, wcfc
\* and wcpwp.  It stops (break) at the first layer without roots.
RootZoneLoop(layers, rootdepth, idx, acc) ==
    IF idx > Len(layers) THEN acc
    ELSE LET layer == layers[idx]
             diff  == layer.thick - Max(0, layer.accthick - rootdepth)
         IN  IF diff <= 0 THEN acc
             ELSE RootZoneLoop(layers, rootdepth, idx + 1,
                    [wc    |-> acc.wc + Mul(layer.vwc, diff),
                     wcsat |-> acc.wcsat + Mul(layer.swc.sat, diff),
                     wcfc  |-> acc.wcfc + Mul(layer.swc.fc, diff),
                     wcpwp |-> acc.wcpwp + Mul(layer.swc.pwp, diff)])

\* _rootzone_water with the critical point of line 354 taken at the whole
\* span between wilting point and saturation instead of half of it.
_rootzone_water_span(layers, rootdepth) ==
    LET acc    == RootZoneLoop(layers, rootdepth, 1,
                    [wc |-> 0, wcsat |-> 0, wcfc |-> 0, wcpwp |-> 0])
        vwc    == Div(acc.wc, rootdepth)
        vwcsat == Div(acc.wcsat, rootdepth)
        vwcfc  == Div(acc.wcfc, rootdepth)
        vwcpwp == Div(acc.wcpwp, rootdepth)
        vwccr  == vwcpwp + (vwcsat - vwcpwp)
    IN  RootZone(acc.wc * 1000, vwc, vwccr, vwcsat, vwcfc, vwcpwp)

\* SoilWater._rootzone_water: the value stored in __prz (rootdepth # 0).
_rootzone_water(layers, rootdepth) ==
    LET acc    == RootZoneLoop(layers, rootdepth, 1,
                    [wc |-> 0, wcsat |-> 0, wcfc |-> 0, wcpwp |-> 0])
        vwc    == Div(acc.wc, rootdepth)
        vwcsat == Div(acc.wcsat, rootdepth)
        vwcfc  == Div(acc.wcfc, rootdepth)
        vwcpwp == Div(acc.wcpwp, rootdepth)
        vwccr  == vwcpwp + (vwcsat - vwcpwp) \div 2
    IN  RootZone(acc.wc * 1000, vwc, vwccr, vwcsat, vwcfc, vwcpwp)

\* Lines 365-366: the reduction of the soil evaporation for the ratio
\* vwc / sat # 0 of the first layer; a negative ratio raised to the power
\* -9.3172 is complex, and so is the reduction.
SoilReduction(ratio) ==
    IF ratio < 0 THEN Complex
    ELSE Div(ONE, ONE + Pow(Mul(3607300, ratio), -9317200))

\* SoilWater._reduce_et: ActualET(rdt, rde).
_reduce_et(layers, prz) ==
    LET rde == SoilReduction(Div(layers[1].vwc, layers[1].swc.sat))
        vwc    == prz.vwc
        vwcpwp == prz.pwp
        vwccr  == prz.critical
        rdt == IF vwc >= vwccr THEN ONE
               ELSE IF vwcpwp < vwc /\ vwc < vwccr
                 THEN Div(vwc - vwcpwp, vwccr - vwcpwp)
               ELSE 10000
    IN  ActualET(rdt, rde)

\* SoilWater._actual_et
_actual_et(waterstresses, petcrop, petsoil) ==
    ActualET(Mul(waterstresses.crop, petcrop),
             IF waterstresses.soil = Complex THEN Complex
             ELSE Mul(waterstresses.soil, petsoil))

\* The exception _influx_from_watertable raises for the last layer, or "none".
WatertableError(last) ==
    IF last.ksat = Complex \/ last.k = Complex THEN "TypeError"
    ELSE IF Ln(last.ksat) - last.lnk = 0 \/ last.thick \div 2 = 0
      THEN "ZeroDivisionError"
    ELSE "none"

\* SoilWater._influx_from_watertable (m/day), when it raises nothing.
_influx_from_watertable(last) ==
    LET k  == Div(last.ksat - last.k, Ln(last.ksat) - last.lnk)
        hm == (33 * ONE - (33 * ONE - last.swc.airentry)) \div 10
        hg == last.accthick
    IN  Div(Mul(k, (hm + hg) - tothead(last)), last.thick \div 2)

\* Line 432 without min(1.0, ...): the share may pass one.
RootFractionUncapped(accthick, rootdepth) == Div(accthick, rootdepth)

\* Line 432: the share of the root depth above the bottom of a layer.
RootFraction(accthick, rootdepth) == Min(ONE, Div(accthick, rootdepth))

\* Line 433: the cumulative share of the transpiration above a layer's bottom.
Psi(cj) == Mul(1800000, cj) - Mul(800000, Mul(cj, cj))

\* Lines 440-444: the flux k * grad from layer prv into layer cur, k being
\* the logarithmic mean of the two conductivities.
Darcy(cur, prv) ==
    LET n == cur.lnk - prv.lnk
    IN  Mul(IF n # 0 THEN Div(cur.k - prv.k, n) ELSE cur.k,
            Div(tothead(cur) - tothead(prv), cur.depth - prv.depth))

\* Lines 428-454 for layer idx: cur is the layer after line 426 and curpsi
\* the value of line 433; st.psi is prvpsi.  math.log (line 440) and min
\* (line 449) raise TypeError on a complex number; a complex evaporation
\* makes the first layer's influx complex.
InfluxLayer(self, st, idx, cur, curpsi) ==
    LET layers == [st.layers EXCEPT ![idx] = cur]
        ei     == IF cur.prev # 0 THEN 0
                  ELSE IF self.aet.soil = Complex THEN Complex
                  ELSE self.aet.soil \div 1000
        ti     == Mul(self.aet.crop, curpsi - st.psi) \div 1000
    IN  IF \/ cur.prev # 0 /\ cur.k = Complex
           \/ cur.prev # 0 /\ layers[cur.prev].k = Complex
           \/ cur.prev = 0 /\ cur.ksat = Complex
          THEN [st EXCEPT !.layers = layers, !.err = "TypeError"]
        ELSE IF cur.prev # 0 /\ cur.depth - layers[cur.prev].depth = 0
          THEN [st EXCEPT !.layers = layers, !.err = "ZeroDivisionError"]
        ELSE [st EXCEPT
                !.layers = layers,
                !.psi = curpsi,
                !.pf[idx].t = ti,
                !.pf[idx].e = ei,
                !.pf[idx].influx =
                   IF cur.prev # 0 THEN Darcy(cur, layers[cur.prev]) - ti
                   ELSE IF ei = Complex THEN Complex
                   ELSE Min(self.netrain \div 1000, cur.ksat) - ei - ti]

RECURSIVE InfluxPass(_, _, _)
\* Loop 1 of _calc_water_fluxes from layer idx on.  st holds the layers, the
\* proxy pf, prvpsi and the exception raised so far.
InfluxPass(self, st, idx) ==
    IF idx > self.numlayers \/ st.err # "none" THEN st
    ELSE InfluxPass(self,
           InfluxLayer(self, st, idx, update_heads_k(st.layers[idx]),
                       Psi(RootFraction(st.layers[idx].accthick,
                                        self.rootdepth))),
           idx + 1)

\* Lines 473-481 without the branch of lines 480-481: only the dry limit
\* is kept.
ClipOutfluxDryOnly(cur, influx, wc, outflux) ==
    LET nextwc == influx + wc - outflux
        drylmt == Mul(cur.thick, 5000)
    IN  IF nextwc < drylmt THEN influx + wc - drylmt
        ELSE outflux

\* Lines 473-481: the outflux that keeps the layer between the dry limit
\* and saturation.
ClipOutflux(cur, influx, wc, outflux) ==
    LET nextwc == influx + wc - outflux
        drylmt == Mul(cur.thick, 5000)
        satlmt == Mul(cur.thick, cur.swc.sat)
    IN  IF nextwc < drylmt THEN influx + wc - drylmt
        ELSE IF nextwc > satlmt THEN influx + wc - satlmt
        ELSE outflux

\* Line 495 without its max and min: the water content is stored as computed.
CapVwcUncapped(cur, wc) == Div(wc, cur.thick)

\* Line 495: the capped water content (m3/m3) of a layer holding wc (m).
CapVwc(cur, wc) == Max(5000, Min(cur.swc.sat, Div(wc, cur.thick)))

\* Lines 498-501 without the division of line 500: the sub-interval's
\* fluxes are added whole.
AddFluxesWhole(cumm, pfi, n) ==
    [field \in FluxFields |-> cumm[field] + pfi[field]]

\* Lines 498-501: one sub-interval's fluxes added to the day's sums.
AddFluxes(cumm, pfi, n) ==
    [field \in FluxFields |-> cumm[field] + pfi[field] \div n]

\* Lines 483-484 left out: the next layer keeps the influx of loop 1.
KeepNextInflux(pf, next, outflux) == pf

\* Lines 483-484: the finalized outflux is the next layer's influx.
SetNextInflux(pf, next, outflux) ==
    IF next # 0 THEN [pf EXCEPT ![next].influx = outflux] ELSE pf

\* Lines 495-496 without line 496: the new vwc is stored, wc is left as it was.
StoreWaterVwcOnly(cur, vwc) == [cur EXCEPT !.vwc = vwc]

\* Lines 495-496 followed by a call of update_heads_k the code does not
\* make: the heads and k are refreshed for the new vwc at once.
StoreWaterRefreshed(cur, vwc) ==
    update_heads_k([cur EXCEPT !.vwc = vwc, !.wc = Mul(vwc, cur.thick) * 1000])

\* Lines 495-496: the new vwc of a layer, and its wc (mm).
StoreWater(cur, vwc) ==
    [cur EXCEPT !.vwc = vwc, !.wc = Mul(vwc, cur.thick) * 1000]

\* Lines 462-471: the outflux of layer cur before the clip.
Outflux(self, st, cur) ==
    IF cur.next # 0 THEN st.pf[cur.next].influx
    ELSE IF ~self.has_watertable THEN cur.k
    ELSE _influx_from_watertable(st.layers[self.numlayers])

\* Lines 483-501 for layer idx: cur is the layer, wc its water (m) and
\* outflux the outflux after the clip.
UpdateLayer(self, st, idx, cur, wc, outflux) ==
    LET netflux == st.pf[idx].influx - outflux
        pf2     == [SetNextInflux(st.pf, cur.next, outflux) EXCEPT
                      ![idx].outflux = outflux,
                      ![idx].netflux = netflux]
    IN  IF cur.thick = 0
          THEN [st EXCEPT !.pf = pf2, !.err = "ZeroDivisionError"]
        ELSE [st EXCEPT
                !.pf = pf2,
                !.layers[idx] =
                   StoreWater(cur, CapVwc(cur, wc + netflux
                                                \div self.numintervals)),
                !.cumm[idx] = AddFluxes(st.cumm[idx], pf2[idx],
                                        self.numintervals)]

\* Lines 457-501 for layer idx holding wc (m) of water.
UpdateStep(self, st, idx, cur, wc) ==
    UpdateLayer(self, st, idx, cur, wc,
                ClipOutflux(cur, st.pf[idx].influx, wc,
                            Outflux(self, st, cur)))

RECURSIVE UpdatePass(_, _, _)
\* Loop 2 of _calc_water_fluxes from layer idx on.  st holds the layers, pf,
\* the day's sums and the exception raised so far.  The comparison of line
\* 478 raises TypeError when the influx or the outflux is complex.
UpdatePass(self, st, idx) ==
    IF idx > self.numlayers \/ st.err # "none" THEN st
    ELSE IF /\ st.layers[idx].next = 0 /\ self.has_watertable
            /\ WatertableError(st.layers[idx]) # "none"
      THEN [st EXCEPT !.err = WatertableError(st.layers[idx])]
    ELSE IF \/ st.pf[idx].influx = Complex
            \/ st.layers[idx].next = 0 /\ st.layers[idx].k = Complex
      THEN [st EXCEPT !.err = "TypeError"]
    ELSE UpdatePass(self,
           UpdateStep(self, st, idx, st.layers[idx],
                      Mul(st.layers[idx].vwc, st.layers[idx].thick)),
           idx + 1)

\* Lines 416-418 without line 416: the stress is taken from the root zone
\* the instance already holds.
StressedStale(self, prz, petcrop, petsoil) ==
    LET ws == _reduce_et(self.layers, self.prz)
    IN  [self EXCEPT !.waterstresses = ws,
                     !.aet = _actual_et(ws, petcrop, petsoil)]

\* Lines 416-418: the root-zone water prz, the stresses and the actual
\* evapotranspiration.
Stressed(self, prz, petcrop, petsoil) ==
    LET ws == _reduce_et(self.layers, prz)
    IN  [self EXCEPT !.prz = prz, !.waterstresses = ws,
                     !.aet = _actual_et(ws, petcrop, petsoil)]

\* What a sub-interval leaves: the instance with the layers and pf of the
\* two loops, the day's sums and the exception raised.
Outcome(self, st) ==
    [sw   |-> [self EXCEPT !.layers = st.layers, !.pf = st.pf],
     cumm |-> st.cumm,
     err  |-> st.err]

\* Lines 420-501: the two loops over the layers.
Loops(self, cummfluxes) ==
    Outcome(self,
      UpdatePass(self,
        InfluxPass(self, [layers |-> self.layers, pf |-> self.pf,
                          cumm |-> cummfluxes, err |-> "none", psi |-> 0],
                   1),
        1))

\* SoilWater._calc_water_fluxes: the instance, the day's sums and the
\* exception raised ("none" when the sub-interval completes).
_calc_water_fluxes(self, cummfluxes, petcrop, petsoil) ==
    IF self.rootdepth = 0
      THEN [sw |-> self, cumm |-> cummfluxes, err |-> "ZeroDivisionError"]
    ELSE Loops(Stressed(self, _rootzone_water(self.layers, self.rootdepth),
                        petcrop, petsoil),
               cummfluxes)

(***************************************************************************)
(* dailydata.py.  A file is the sequence of its lines, a line the sequence *)
(* of the floats between its commas.                                       *)
(***************************************************************************)
RECURSIVE Flatten(_)
\* Lines 39-44: self.data += lst, line after line.
Flatten(lines) ==
    IF lines = <<>> THEN <<>>
    ELSE lines[1] \o Flatten(Tail(lines))

\* No DailyData object.
NoData == [data |-> <<>>, nset |-> 0]

\* Nothing returned yet.  `scalar` tells a float from a list of floats.
NoItem == [err |-> "none", scalar |-> FALSE, value |-> <<>>]

\* Lines 45-47: the exception of DailyData.__init__.
DataError(lines) ==
    IF Cardinality({Len(lines[n]) : n \in 1..Len(lines)}) # 1
      THEN "IndexError"
    ELSE "none"

\* DailyData.__init__ on a file whose lines all hold as many values.
DailyData(lines) == [data |-> Flatten(lines), nset |-> Len(lines[1])]

\* DailyData.__getitem__ with the first record at key 0: line 64 without
\* its `- 1`.
GetItemFromZero(self, k) ==
    IF k < 1 THEN [err |-> "ValueError", scalar |-> FALSE, value |-> <<>>]
    ELSE LET nlen == Len(self.data)
             idx  == (k * self.nset) % nlen
         IN  [err    |-> "none",
              scalar |-> self.nset = 1,
              value  |-> [j \in 1..self.nset |-> self.data[idx + j]]]

\* DailyData.__getitem__ (lines 50-71); the list index idx + i of line 71
\* is position idx + i + 1 of the sequence.
GetItem(self, k) ==
    IF k < 1 THEN [err |-> "ValueError", scalar |-> FALSE, value |-> <<>>]
    ELSE LET nlen == Len(self.data)
             idx  == ((k - 1) * self.nset) % nlen
         IN  [err    |-> "none",
              scalar |-> self.nset = 1,
              value  |-> [j \in 1..self.nset |-> self.data[idx + j]]]

(***************************************************************************)
(* Bounds and inputs.                                                      *)
(***************************************************************************)
MaxLayers == 2

MaxIntervals == 2

MaxDays == 2

\* The instances one process constructs, one after the other.
MaxInstances == 2

\* Textures (clay, sand, organic matter in percent).  The second has a
\* wilting point under the dry limit 0.005; the third makes math.log raise.
TexLoam == Texture(2 * ONE, 40 * ONE, ONE)

TexSandy == Texture(0, 45 * ONE, 0)

TexBad == Texture(0, 100 * ONE, 0)

\* The layer records of an initialization file: thickness (m), initial
\* water content (the special codes -1 and -3, the literal 0.9) and texture;
\* and two records the construction contract excludes, a negative thickness
\* and a texture the regression cannot take.
LayerInputs ==
    {[thick |-> th, vwc |-> v, texture |-> tx] :
        th \in {100000, 200000}, v \in {-ONE, -3 * ONE, 900000},
        tx \in {TexLoam, TexSandy}}
    \cup {[thick |-> -100000, vwc |-> 300000, texture |-> TexLoam],
          [thick |-> 100000, vwc |-> 300000, texture |-> TexBad]}

RECURSIVE SeqsOf(_, _)
\* The sequences of length n over S.
SeqsOf(S, n) ==
    IF n = 0 THEN {<<>>}
    ELSE {Append(sq, e) : sq \in SeqsOf(S, n - 1), e \in S}

LayerArrays == UNION {SeqsOf(LayerInputs, n) : n \in 1..MaxLayers}

\* The initialization files (the JSON object SoilWater.__init__ reads).
\* Records past numlayers are never read (line 290 iterates self.layers), so
\* a copy of the first record stands for every surplus record.
IniFiles ==
    {f \in [numintervals : 1..MaxIntervals, rootdepth : {150000, 400000},
            has_watertable : BOOLEAN, numlayers : 1..MaxLayers,
            layers : LayerArrays] :
        \A j \in 1..Len(f.layers) : j > f.numlayers => f.layers[j] = f.layers[1]}

\* A day's driving data: rain (mm), lai, petcrop and petsoil (mm).
DayInputs ==
    {[rain |-> 0, lai |-> 2 * ONE, petcrop |-> 3 * ONE, petsoil |-> 2 * ONE],
     [rain |-> 10 * ONE, lai |-> 2 * ONE, petcrop |-> 3 * ONE,
      petsoil |-> 2 * ONE]}

(***************************************************************************)
(* State.                                                                  *)
(***************************************************************************)
VARIABLES
    phase,       \* "start", "ready" (constructed, between days), "day"
                 \* (inside daily_water_balance), "failed" (__init__ raised),
                 \* "raised" (daily_water_balance raised)
    ini,         \* the initialization file given to SoilWater.__init__
    accdepth,    \* the class attribute SoilLayer.__accdepth
    sw,          \* the SoilWater instance
    args,        \* the arguments of the running daily_water_balance
    cummfluxes,  \* its local cummfluxes
    i,           \* sub-intervals completed in the running day step
    day,         \* day steps completed
    error,       \* the exception raised, or "none"
    built,       \* the instances constructed so far in this process
    log,         \* what the caller read off the instance after each day step
    earlier,     \* the log of the instance constructed before this one
    datafile,    \* the lines of the file given to DailyData.__init__
    dailydata,   \* the DailyData object
    key,         \* the key of the last dailydata[key]
    item         \* what dailydata[key] returned or raised

vars == <<phase, ini, accdepth, sw, args, cummfluxes, i, day, error,
          built, log, earlier, datafile, dailydata, key, item>>

\* The state of the soil water model, and that of the daily data.
soil == <<phase, ini, accdepth, sw, args, cummfluxes, i, day, error,
          built, log, earlier>>

weather == <<datafile, dailydata, key, item>>

NoInstance ==
    [numintervals |-> 0, rootdepth |-> 0, has_watertable |-> FALSE,
     numlayers |-> 0, layers |-> <<>>, pf |-> <<>>,
     prz |-> RootZone(0, 0, 0, 0, 0, 0),
     rootwater |-> RootZone(0, 0, 0, 0, 0, 0),
     waterstresses |-> ActualET(0, 0), netrain |-> 0,
     aet |-> ActualET(0, 0)]

NoArgs == [rain |-> 0, lai |-> 0, petcrop |-> 0, petsoil |-> 0]

NoIni == [numintervals |-> 0, rootdepth |-> 0, has_watertable |-> FALSE,
          numlayers |-> 0, layers |-> <<>>]

Init ==
    /\ phase = "start"
    /\ ini = NoIni
    /\ accdepth = 0
    /\ sw = NoInstance
    /\ args = NoArgs
    /\ cummfluxes = <<>>
    /\ i = 0
    /\ day = 0
    /\ error = "none"
    /\ built = 0
    /\ log = <<>>
    /\ earlier = <<>>
    /\ datafile = <<>>
    /\ dailydata = NoData
    /\ key = 0
    /\ item = NoItem

\* Lines 290-296: thick, vwc, wc and texture of layer idx from the file.
ReadLayer(rec) ==
    [SoilLayer EXCEPT !.thick = rec.thick,
                      !.vwc = rec.vwc,
                      !.wc = Mul(rec.vwc, rec.thick) * 1000,
                      !.texture = rec.texture]

RECURSIVE InitializeLayers(_, _, _)
\* Lines 300-303 from layer idx on: st holds the layers, SoilLayer.__accdepth
\* and the exception raised so far.
InitializeLayers(st, idx, n) ==
    IF idx > n \/ st.err # "none" THEN st
    ELSE
      LET self      == st.layers[idx]
          prevlayer == IF idx > 1 THEN st.layers[idx - 1] ELSE SoilLayer
          d         == (prevlayer.thick + self.thick) \div 2
          nextidx   == IF idx < n THEN idx + 1 ELSE 0
      IN  IF TextureError(self.texture) # "none"
            THEN [st EXCEPT !.acc = @ + d,
                            !.err = TextureError(self.texture)]
          ELSE InitializeLayers(
                 [st EXCEPT !.layers[idx] =
                              initialize_layer(self, prevlayer, idx - 1,
                                               nextidx, st.acc),
                            !.acc = @ + d],
                 idx + 1, n)

\* The exception SoilWater.__init__ raises on file cfg, or "none".
InitError(cfg, st) ==
    IF Len(cfg.layers) < cfg.numlayers THEN "IndexError"
    ELSE IF st.err # "none" THEN st.err
    ELSE IF cfg.rootdepth = 0 THEN "ZeroDivisionError"
    ELSE "none"

\* The instance SoilWater.__init__ leaves when it raises nothing.
NewSoilWater(cfg, layers) ==
    LET prz == _rootzone_water(layers, cfg.rootdepth)
    IN  [numintervals   |-> cfg.numintervals,
         rootdepth      |-> cfg.rootdepth,
         has_watertable |-> cfg.has_watertable,
         numlayers      |-> cfg.numlayers,
         layers         |-> layers,
         pf             |-> ZeroFluxes(cfg.numlayers),
         prz            |-> prz,
         rootwater      |-> RootZone(0, 0, 0, 0, 0, 0),
         waterstresses  |-> _reduce_et(layers, prz),
         netrain        |-> 0,
         aet            |-> ActualET(0, 0)]

\* Lines 289-303 on file cfg: the layers read and initialized, with
\* SoilLayer.__accdepth and the exception raised.  A layer array shorter
\* than numlayers raises at line 291, before any layer is initialized.
ReadLayers(cfg, acc) ==
    LET n    == Min(cfg.numlayers, Len(cfg.layers))
        read == [layers |-> [idx \in 1..n |-> ReadLayer(cfg.layers[idx])],
                 acc |-> acc, err |-> "none"]
    IN  IF Len(cfg.layers) < cfg.numlayers THEN read
        ELSE InitializeLayers(read, 1, cfg.numlayers)

\* SoilWater.__init__ on the initialization file cfg, whatever was
\* constructed before: SoilLayer.__accdepth is read as the class holds it.
NewInstance(cfg) ==
    /\ \E st \in {ReadLayers(cfg, accdepth)} :
         \E err \in {InitError(cfg, st)} :
           /\ accdepth' = st.acc
           /\ error' = err
           /\ phase' = IF err = "none" THEN "ready" ELSE "failed"
           /\ sw' = IF err = "none" THEN NewSoilWater(cfg, st.layers)
                    ELSE NoInstance
    /\ ini' = cfg
    /\ built' = built + 1
    /\ log' = <<>>
    /\ UNCHANGED <<args, cummfluxes, i, weather>>

\* The first SoilWater(fname_in) of the process.
Construct(cfg) ==
    /\ phase = "start"
    /\ NewInstance(cfg)
    /\ UNCHANGED <<day, earlier>>

\* A further SoilWater(fname_in) in the same process, from the same file,
\* the instance before it being dropped between two day steps.
Rebuild ==
    /\ phase = "ready"
    /\ built < MaxInstances
    /\ NewInstance(ini)
    /\ day' = 0
    /\ earlier' = log

\* daily_water_balance, lines 515-521: the values fixed for the day.
BeginDay(d) ==
    /\ phase = "ready"
    /\ day < MaxDays
    /\ sw' = [sw EXCEPT !.netrain = net_rainfall(d.rain, d.lai),
                        !.rootdepth = _rooting_depth(sw)]
    /\ cummfluxes' = ZeroFluxes(sw.numlayers)
    /\ args' = d
    /\ i' = 0
    /\ phase' = "day"
    /\ UNCHANGED <<ini, accdepth, day, error, built, log, earlier, weather>>

\* daily_water_balance, lines 524-525: one pass of the loop.
SubInterval ==
    /\ phase = "day"
    /\ i < sw.numintervals
    /\ \E r \in {_calc_water_fluxes(sw, cummfluxes, args.petcrop,
                                     args.petsoil)} :
           /\ sw' = r.sw
           /\ cummfluxes' = r.cumm
           /\ error' = r.err
           /\ phase' = IF r.err = "none" THEN "day" ELSE "raised"
           /\ i' = IF r.err = "none" THEN i + 1 ELSE i
    /\ UNCHANGED <<ini, accdepth, args, day, built, log, earlier, weather>>

\* What the caller reads off the instance after a day step on the inputs d:
\* the root depth and each layer's vwc, wc and fluxes.
DayReport(self, d, layers) ==
    [args |-> d, rootdepth |-> self.rootdepth,
     layers |-> [idx \in 1..self.numlayers |->
                   [vwc |-> layers[idx].vwc, wc |-> layers[idx].wc,
                    fluxes |-> layers[idx].fluxes]]]

\* The layers with the day's sums as their fluxes (lines 531-533).
Reported(self, cumm) ==
    [idx \in 1..self.numlayers |->
       [self.layers[idx] EXCEPT !.fluxes = cumm[idx]]]

\* daily_water_balance, lines 527-533: the report, and the return.
EndDay ==
    /\ phase = "day"
    /\ i = sw.numintervals
    /\ sw' = [sw EXCEPT !.rootwater = sw.prz,
                        !.layers = Reported(sw, cummfluxes)]
    /\ log' = Append(log, DayReport(sw, args, Reported(sw, cummfluxes)))
    /\ phase' = "ready"
    /\ day' = day + 1
    /\ args' = NoArgs
    /\ cummfluxes' = <<>>
    /\ i' = 0
    /\ UNCHANGED <<ini, accdepth, error, built, earlier, weather>>

Next ==
    \/ \E cfg \in IniFiles : Construct(cfg)
    \/ \E d \in DayInputs : BeginDay(d)
    \/ SubInterval
    \/ EndDay

Spec == Init /\ [][Next]_vars

\* The layer records of a process that constructs more than one instance:
\* a layer at its wilting point (code -3) or, literally, a little under
\* saturation.
ProcessLayers ==
    {[thick |-> th, vwc |-> v, texture |-> tx] :
        th \in {100000, 200000}, v \in {-3 * ONE, 510000},
        tx \in {TexLoam, TexSandy}}

\* Its initialization files: as many records as numlayers says, and roots
\* that start at 0.15 m.
ProcessFiles ==
    {f \in [numintervals : 1..MaxIntervals, rootdepth : {150000},
            has_watertable : BOOLEAN, numlayers : 1..MaxLayers,
            layers : UNION {SeqsOf(ProcessLayers, n) : n \in 1..MaxLayers}] :
        Len(f.layers) = f.numlayers}

NextProcess ==
    \/ \E cfg \in ProcessFiles : Construct(cfg)
    \/ \E d \in DayInputs : BeginDay(d)
    \/ SubInterval
    \/ EndDay
    \/ Rebuild

\* The initial water contents of a layer record: the three codes, a code
\* inside each of the two ranges, codes out of range on either side, and a
\* literal water content.
InitialCodes ==
    {-ONE, -1500000, -2 * ONE, -2250000, -2750000, -3 * ONE, -3500000,
     -500000, 300000}

\* The files that try the codes: one or two layers of 0.1 m.
CodeFiles ==
    {f \in [numintervals : {1}, rootdepth : {150000},
            has_watertable : {FALSE}, numlayers : 1..MaxLayers,
            layers : UNION {SeqsOf({[thick |-> 100000, vwc |-> v,
                                     texture |-> tx] :
                                      v \in InitialCodes,
                                      tx \in {TexLoam, TexSandy}}, n) :
                              n \in 1..MaxLayers}] :
        Len(f.layers) = f.numlayers}

NextCodes ==
    \/ \E cfg \in CodeFiles : Construct(cfg)
    \/ \E d \in DayInputs : BeginDay(d)
    \/ SubInterval
    \/ EndDay

\* Instances constructed from every kind of initial water content.
SpecCodes == Init /\ [][NextCodes]_vars

\* Textures over the range of the inputs: clay up to 40 % and sand up to
\* 60 % in steps of 20 %, organic matter up to 15 %.
TextureGrid ==
    {Texture(c * ONE, sd * ONE, om * ONE) :
        c \in {0, 20, 40}, sd \in {0, 20, 40, 60}, om \in {0, 4, 8, 12, 15}}

\* The files that try the textures: one layer of 0.1 m or 0.2 m, given at
\* field capacity.
TextureFiles ==
    {[numintervals |-> 1, rootdepth |-> 150000, has_watertable |-> FALSE,
      numlayers |-> 1,
      layers |-> <<[thick |-> th, vwc |-> -2 * ONE, texture |-> tx]>>] :
        th \in {100000, 200000}, tx \in TextureGrid}

NextTextures == \E cfg \in TextureFiles : Construct(cfg)

\* Instances constructed on every texture of the grid.
SpecTextures == Init /\ [][NextTextures]_vars

\* A process that constructs instances one after the other.
SpecProcess == Init /\ [][NextProcess]_vars

\* The records of a daily data file, the values of a line, and the keys
\* asked for, at most.
MaxRecords == 3

MaxSet == 2

MaxKey == 7

\* The lines a data file may hold: one to MaxSet values each.
DataLines == UNION {SeqsOf({0, 12500000}, w) : w \in 1..MaxSet}

\* The data files: up to MaxRecords lines, of equal length or not.
DataFiles == UNION {SeqsOf(DataLines, n) : n \in 0..MaxRecords}

\* DailyData(fname)
Load(lines) ==
    /\ dailydata = NoData
    /\ datafile = <<>>
    /\ item = NoItem
    /\ DataError(lines) = "none"
    /\ datafile' = lines
    /\ dailydata' = DailyData(lines)
    /\ UNCHANGED <<soil, key, item>>

\* DailyData(fname) raising: no object is left.
LoadFails(lines) ==
    /\ dailydata = NoData
    /\ datafile = <<>>
    /\ item = NoItem
    /\ DataError(lines) # "none"
    /\ datafile' = lines
    /\ item' = [NoItem EXCEPT !.err = DataError(lines)]
    /\ UNCHANGED <<soil, dailydata, key>>

\* dailydata[k]
Index(k) ==
    /\ dailydata # NoData
    /\ key' = k
    /\ item' = GetItem(dailydata, k)
    /\ UNCHANGED <<soil, datafile, dailydata>>

NextDailyData ==
    \/ \E lines \in DataFiles : Load(lines)
    \/ \E lines \in DataFiles : LoadFails(lines)
    \/ \E k \in -1..MaxKey : Index(k)

\* A DailyData object read from a file and indexed.
SpecDailyData == Init /\ [][NextDailyData]_vars

\* The files on which the course of a day step is followed: one or two
\* loam layers of 0.1 m at field capacity or at saturation, with and
\* without a water table, in one and in two sub-intervals.
DayStepFiles ==
    {f \in [numintervals : 1..MaxIntervals, rootdepth : {150000},
            has_watertable : BOOLEAN, numlayers : 1..MaxLayers,
            layers : UNION {SeqsOf({[thick |-> 100000, vwc |-> v,
                                     texture |-> TexLoam] :
                                      v \in {-2 * ONE, -ONE}}, n) :
                              n \in 1..MaxLayers}] :
        Len(f.layers) = f.numlayers}

NextDaySteps ==
    \/ \E cfg \in DayStepFiles : Construct(cfg)
    \/ \E d \in DayInputs : BeginDay(d)
    \/ SubInterval
    \/ EndDay

\* Arguments of daily_water_balance under canopies from bare soil to a
\* closed one: no rain or 10 mm/day, leaf area index 0, 2 or 5.
CanopyInputs ==
    {[rain |-> r, lai |-> l, petcrop |-> 3 * ONE, petsoil |-> 2 * ONE] :
        r \in {0, 10 * ONE}, l \in {0, 2 * ONE, 5 * ONE}}

NextCanopy ==
    \/ \E cfg \in DayStepFiles : Construct(cfg)
    \/ \E d \in CanopyInputs : BeginDay(d)
    \/ SubInterval
    \/ EndDay

\* Day steps under those canopies.
SpecCanopy == Init /\ [][NextCanopy]_vars

\* What a pass of the loop of lines 524-525 does to the position of the
\* day step: one more pass done, or an exception raised.  SubInterval is
\* enabled exactly when this is, and every SubInterval step is one.
LoopPass ==
    /\ phase = "day"
    /\ i < sw.numintervals
    /\ \E p \in {"day", "raised"} :
         /\ phase' = p
         /\ i' = IF p = "day" THEN i + 1 ELSE i

\* Day steps with the scheduling of daily_water_balance: once called, its
\* loop of lines 524-525 and its report of lines 527-533 run on.
FairSpec ==
    /\ Init /\ [][NextDaySteps]_vars
    /\ WF_<<phase, i>>(LoopPass) /\ WF_vars(EndDay)

\* ---------------------------------------------------------------------------
\* Properties of the water balance

\* A sub-interval of the running day has completed, or a day step has.
AfterSubInterval ==
    \/ phase = "day" /\ i >= 1
    \/ phase = "ready" /\ day >= 1

\* An instance exists: __init__ returned.
Constructed == phase \in {"ready", "day", "raised"}

\* vwc of a layer lies between the dry limit 0.005 and the layer's saturation.
InRange(layer) == 5000 <= layer.vwc /\ layer.vwc <= layer.swc.sat

C2_ClippedAlways ==
    Constructed => \A idx \in 1..sw.numlayers : InRange(sw.layers[idx])

\* C2 counterexample: no state right after construction holds a layer whose
\* vwc is outside [0.005, saturation].
C2_Counterexample ==
    ~(/\ phase = "ready" /\ day = 0
      /\ \E idx \in 1..sw.numlayers : ~InRange(sw.layers[idx]))

\* C3: in every state with an instance, each layer's wc (mm) is
\* vwc x thickness x 1000.
C3_WaterContent ==
    Constructed =>
      \A idx \in 1..sw.numlayers :
        sw.layers[idx].wc
          = Mul(sw.layers[idx].vwc, sw.layers[idx].thick) * 1000

\* C3 witness: a sub-interval has moved the water of a layer that was
\* given by a special code, and of one given literally.
C3_Witness ==
    /\ phase = "day" /\ i >= 1 /\ sw.numlayers = 2
    /\ ini.layers[1].vwc < 0 /\ ini.layers[2].vwc > 0
    /\ sw.layers[1].vwc # sw.layers[1].swc.sat
    /\ sw.layers[2].vwc # ini.layers[2].vwc

\* C4: construction fails whenever numlayers differs from the length of the
\* layer array, shorter or longer, and leaves no instance.
C4_LayerCountMismatchFails ==
    phase # "start" /\ Len(ini.layers) # ini.numlayers =>
      phase = "failed" /\ sw = NoInstance

\* C4 counterexample: no instance is ever built from an array longer than
\* numlayers.
C4_Counterexample ==
    ~(/\ phase = "ready"
      /\ Len(ini.layers) > ini.numlayers
      /\ sw.numlayers = ini.numlayers)

\* C5: construction fails whenever a layer record has thickness <= 0; no
\* instance with such a layer is constructed or stepped.
C5_NonPositiveThicknessFails ==
    /\ (phase # "start"
        /\ \E j \in 1..Len(ini.layers) : ini.layers[j].thick <= 0)
       => phase = "failed"
    /\ Constructed => \A idx \in 1..sw.numlayers : sw.layers[idx].thick > 0

\* C5 counterexample: no instance with a layer of thickness <= 0 ever
\* completes a day step.
C5_Counterexample ==
    ~(/\ phase = "ready" /\ day >= 1
      /\ \E idx \in 1..sw.numlayers : sw.layers[idx].thick <= 0)

\* Every layer of the instance has a positive thickness.
ValidGeometry == \A idx \in 1..sw.numlayers : sw.layers[idx].thick > 0

\* C6: with a water table, a day step never fails with a numeric error, also
\* when the last layer's conductivity equals its saturated conductivity.
C6_WaterTableNeverRaises ==
    Constructed /\ sw.has_watertable /\ ValidGeometry => phase # "raised"

\* C6 counterexample: no day step over a water table raises
\* ZeroDivisionError with the last layer at its saturated conductivity.
C6_Counterexample ==
    ~(/\ phase = "raised" /\ error = "ZeroDivisionError"
      /\ sw.has_watertable /\ ValidGeometry
      /\ sw.layers[sw.numlayers].k = sw.layers[sw.numlayers].ksat)

\* C7: after each day step, rootwater is the root-zone aggregation of the
\* layers as they stand after the day's last sub-interval, at the current
\* root depth.
C7_RootwaterConsistent ==
    phase = "ready" /\ day >= 1 =>
      sw.rootwater = _rootzone_water(sw.layers, sw.rootdepth)

\* C7 counterexample: after no day step on valid geometry does rootwater.vwc
\* differ from the aggregation of the layers by more than 0.001.
C7_Counterexample ==
    ~(/\ phase = "ready" /\ day >= 1 /\ ValidGeometry
      /\ LET now == _rootzone_water(sw.layers, sw.rootdepth)
         IN  \/ sw.rootwater.vwc - now.vwc > 1000
             \/ now.vwc - sw.rootwater.vwc > 1000)

RECURSIVE SumT(_, _)
\* The sum of the transpiration shares pf[1..n].t.
SumT(pf, n) == IF n = 0 THEN 0 ELSE SumT(pf, n - 1) + pf[n].t

\* C8: in every sub-interval the transpiration shares of the layers sum to
\* at most the actual transpiration demand aet.crop / 1000.
C8_TranspirationConserved ==
    phase = "day" /\ i >= 1 =>
      SumT(sw.pf, sw.numlayers) <= sw.aet.crop \div 1000

\* C8 witness: a sub-interval in which the roots end inside the second layer
\* and both layers transpire.
C8_Witness ==
    /\ phase = "day" /\ i >= 1 /\ sw.numlayers = 2 /\ ValidGeometry
    /\ sw.layers[1].accthick < sw.rootdepth
    /\ sw.rootdepth < sw.layers[2].accthick
    /\ sw.pf[1].t > 0 /\ sw.pf[2].t > 0
    /\ SumT(sw.pf, 2) < sw.aet.crop \div 1000

\* C9: the outflux recorded for a layer that is not the last is the influx
\* recorded for the layer under it, in every sub-interval and in the daily
\* fluxes, also when a clip recomputed the outflux.
C9_Continuity ==
    /\ (phase = "day" /\ i >= 1) =>
         \A idx \in 1..(sw.numlayers - 1) :
           sw.pf[idx].outflux = sw.pf[idx + 1].influx
    /\ (phase = "ready" /\ day >= 1) =>
         \A idx \in 1..(sw.numlayers - 1) :
           sw.layers[idx].fluxes.outflux = sw.layers[idx + 1].fluxes.influx

\* C9 witness: a day of one sub-interval has ended in which the first of two
\* layers went from saturation to the dry limit, its outflux recomputed by
\* the dry-floor clip.
C9_Witness ==
    /\ phase = "ready" /\ day = 1 /\ sw.numintervals = 1 /\ sw.numlayers = 2
    /\ ValidGeometry
    /\ ini.layers[1].vwc = -ONE
    /\ sw.layers[1].vwc = 5000
    /\ sw.layers[1].fluxes.outflux # 0

RECURSIVE TotalThickness(_, _)
\* The thickness of the profile: the sum of the first n layers' thick.
TotalThickness(layers, n) ==
    IF n = 0 THEN 0 ELSE TotalThickness(layers, n - 1) + layers[n].thick

\* C10: a day step sets rootdepth to min(rootdepth + 0.008, total profile
\* thickness) once, before the first sub-interval; the sub-intervals and the
\* return leave it alone; after a day step rootdepth is at most the total
\* profile thickness.
C10_RootDepth ==
    /\ [](phase = "ready" /\ day >= 1 =>
            sw.rootdepth <= TotalThickness(sw.layers, sw.numlayers))
    /\ [][/\ (phase = "ready" /\ phase' = "day") =>
               sw'.rootdepth
                 = Min(sw.rootdepth + 8000,
                       TotalThickness(sw.layers, sw.numlayers))
          /\ phase = "day" => sw'.rootdepth = sw.rootdepth]_vars

\* C10 witness: two day steps have run on a root depth that started beyond
\* the profile, and the root depth is the profile's thickness.
C10_Witness ==
    /\ phase = "ready" /\ day = 2 /\ ValidGeometry
    /\ ini.rootdepth > TotalThickness(sw.layers, sw.numlayers)
    /\ sw.rootdepth = TotalThickness(sw.layers, sw.numlayers)

\* Layer idx has the cumulative thickness of the layers down to it, and its
\* depth is its midpoint measured from the surface of its own profile.
MidpointDepth(layers, idx) ==
    /\ layers[idx].accthick
         = layers[idx].thick + (IF idx > 1 THEN layers[idx - 1].accthick ELSE 0)
    /\ layers[idx].depth = layers[idx].accthick - layers[idx].thick \div 2

\* C11: in every instance, whatever was constructed before it in the
\* process, each layer's cumulative thickness is its thickness plus that of
\* the layer above, and its depth is its midpoint from the profile's surface.
C11_LayerDepths ==
    Constructed => \A idx \in 1..sw.numlayers : MidpointDepth(sw.layers, idx)

\* C11 counterexample: the layers of an instance constructed after another
\* one have their midpoints as depths.
C11_Counterexample ==
    phase = "ready" /\ built >= 2 /\ ValidGeometry =>
      \A idx \in 1..sw.numlayers : MidpointDepth(sw.layers, idx)

\* The first d day steps of this instance had the inputs of the first d day
\* steps of the instance before it.
SameInputs(d) == \A e \in 1..d : log[e].args = earlier[e].args

\* C12: an instance constructed after another one from the same file and
\* stepped with the same daily inputs reports, after every day, the root
\* depth and the per-layer vwc, wc and fluxes the first one reported, with
\* and without a water table.
C12_Deterministic ==
    built >= 2 =>
      \A d \in 1..Min(Len(log), Len(earlier)) :
        SameInputs(d) => log[d] = earlier[d]

\* The same without a water table (it holds: only differences of depths
\* enter the fluxes between layers).
DeterministicOnFreeDrainage ==
    built >= 2 /\ ~sw.has_watertable =>
      \A d \in 1..Min(Len(log), Len(earlier)) :
        SameInputs(d) => log[d] = earlier[d]

\* C12 counterexample: over a water table, the second instance's vwc stays
\* within 0.001 of the first one's after every day of the same inputs.
C12_Counterexample ==
    built >= 2 /\ sw.has_watertable =>
      \A d \in 1..Min(Len(log), Len(earlier)) :
        SameInputs(d) =>
          \A idx \in 1..sw.numlayers :
            /\ log[d].layers[idx].vwc - earlier[d].layers[idx].vwc <= 1000
            /\ earlier[d].layers[idx].vwc - log[d].layers[idx].vwc <= 1000

\* The state right after SoilWater.__init__ returned.
JustConstructed == phase = "ready" /\ day = 0

\* The water content the input v stands for on a layer with the
\* characteristics swc, as the layer's documentation gives it.
CodeMeaning(v, swc) ==
    IF v >= 0 THEN v
    ELSE IF v = -ONE THEN swc.sat
    ELSE IF v = -2 * ONE THEN swc.fc
    ELSE IF v = -3 * ONE THEN swc.pwp
    ELSE IF -2 * ONE < v /\ v < -ONE
      THEN swc.sat - Mul(-v - ONE, swc.sat - swc.fc)
    ELSE IF -3 * ONE < v /\ v < -2 * ONE
      THEN swc.fc - Mul(-v - 2 * ONE, swc.fc - swc.pwp)
    ELSE swc.fc

\* C13: after construction a layer holds saturation, field capacity or
\* wilting point for the input -1, -2, -3; the linear interpolation between
\* saturation and field capacity for an input between -2 and -1, between
\* field capacity and wilting point for one between -3 and -2; field
\* capacity for every other negative input; a non-negative input itself.
C13_SpecialCodes ==
    JustConstructed =>
      \A idx \in 1..sw.numlayers :
        sw.layers[idx].vwc
          = CodeMeaning(ini.layers[idx].vwc, sw.layers[idx].swc)

\* C13 witness: an instance whose first layer was given -1.5 and lies
\* halfway between field capacity and saturation, and whose second layer
\* was given -3.5 and lies at field capacity.
C13_Witness ==
    /\ JustConstructed /\ sw.numlayers = 2
    /\ ini.layers[1].vwc = -1500000
    /\ sw.layers[1].swc.fc < sw.layers[1].vwc
    /\ sw.layers[1].vwc < sw.layers[1].swc.sat
    /\ sw.layers[1].vwc
         = sw.layers[1].swc.sat
           - (sw.layers[1].swc.sat - sw.layers[1].swc.fc) \div 2
    /\ ini.layers[2].vwc = -3500000
    /\ sw.layers[2].vwc = sw.layers[2].swc.fc
    /\ sw.layers[2].swc.pwp < sw.layers[2].swc.fc

\* A reduction factor: between 0 (full stress) and 1 (no stress).
IsFactor(x) == 0 <= x /\ x <= ONE

\* C14: in every state with an instance, after construction and after every
\* sub-interval, both water-stress factors lie in [0, 1].
C14_StressFactors ==
    Constructed =>
      IsFactor(sw.waterstresses.crop) /\ IsFactor(sw.waterstresses.soil)

\* C14 counterexample: right after construction on any texture of the grid,
\* the soil-evaporation factor is a number in [0, 1].
C14_Counterexample ==
    JustConstructed => IsFactor(sw.waterstresses.soil)

\* C17: every layer constructed from a texture with clay, sand and organic
\* matter in [0, 100] % has wilting point <= field capacity <= saturation.
C17_Ordered ==
    Constructed =>
      \A idx \in 1..sw.numlayers :
        /\ sw.layers[idx].swc.pwp <= sw.layers[idx].swc.fc
        /\ sw.layers[idx].swc.fc <= sw.layers[idx].swc.sat

\* C17 counterexample: on any texture of the grid without clay, the field
\* capacity of the constructed layer does not exceed its saturation.
C17_Counterexample ==
    JustConstructed /\ ini.layers[1].texture.clay = 0 =>
      sw.layers[1].swc.fc <= sw.layers[1].swc.sat

\* C15: whenever the root zone's average wilting point is below its average
\* saturation, its critical point lies strictly between the two, whatever
\* the root depth and the layers' thicknesses.
C15_CriticalBetween ==
    Constructed /\ sw.prz.pwp < sw.prz.sat =>
      sw.prz.pwp < sw.prz.critical /\ sw.prz.critical < sw.prz.sat

\* C15 witness: the roots have grown during a day step and end inside the
\* second of two layers of different textures, and the critical point is
\* strictly between the averages.
C15_Witness ==
    /\ phase = "day" /\ i >= 1 /\ sw.numlayers = 2
    /\ sw.layers[1].texture # sw.layers[2].texture
    /\ sw.layers[1].accthick < sw.rootdepth
    /\ sw.rootdepth < sw.layers[2].accthick
    /\ ini.rootdepth < sw.rootdepth
    /\ sw.prz.pwp < sw.prz.critical /\ sw.prz.critical < sw.prz.sat

\* The heads and the conductivity of a layer.
HeadsK(self) == <<self.matric, self.gravity, self.k>>

\* C16: on every layer of an instance, a second call of update_heads_k
\* with the vwc unchanged yields the matric head, gravity head and
\* conductivity of the first call.
C16_Idempotent ==
    phase \in {"ready", "day"} =>
      \A idx \in 1..sw.numlayers :
        HeadsK(update_heads_k(update_heads_k(sw.layers[idx])))
          = HeadsK(update_heads_k(sw.layers[idx]))

\* C16 witness: a sub-interval has changed the water content of a first
\* layer, now below field capacity, so that the first call changes matric
\* head and conductivity (positive, below the saturated one), and the
\* second call changes nothing.
C16_Witness ==
    /\ phase = "day" /\ i >= 1 /\ ValidGeometry
    /\ sw.layers[1].vwc < sw.layers[1].swc.fc
    /\ sw.layers[1].depth > 0
    /\ update_heads_k(sw.layers[1]).matric # sw.layers[1].matric
    /\ update_heads_k(sw.layers[1]).k # sw.layers[1].k
    /\ 0 < update_heads_k(sw.layers[1]).k
    /\ update_heads_k(sw.layers[1]).k < sw.layers[1].ksat
    /\ HeadsK(update_heads_k(update_heads_k(sw.layers[1])))
         = HeadsK(update_heads_k(sw.layers[1]))

RECURSIVE TotalWater(_, _)
\* The water (m) held by the first n layers: the sum of vwc * thick.
TotalWater(layers, n) ==
    IF n = 0 THEN 0
    ELSE TotalWater(layers, n - 1) + Mul(layers[n].vwc, layers[n].thick)

\* No rain has fallen on this instance since its construction, the day
\* under way included.
NeverRained ==
    /\ \A d \in 1..Len(log) : log[d].args.rain = 0
    /\ phase = "day" => args.rain = 0

\* C18: without a water table and without rain on any day, no sub-interval
\* that completes leaves more water in the layers than it found, and so no
\* day does, whatever the demand of crop and soil.
C18_MonotonicDrainage ==
    [][phase = "day" /\ phase' = "day" /\ i' = i + 1
       /\ ~sw.has_watertable /\ NeverRained
         => TotalWater(sw'.layers, sw.numlayers)
              <= TotalWater(sw.layers, sw.numlayers)]_vars

\* C18 counterexample: on layers of positive thickness that start at or
\* above the dry limit, without a water table and without rain, no
\* sub-interval adds more than 0.1 mm of water to the layers.
C18_Counterexample ==
    [][phase = "day" /\ phase' = "day" /\ i' = i + 1
       /\ ~sw.has_watertable /\ NeverRained /\ ValidGeometry
       /\ (\A idx \in 1..sw.numlayers : sw.layers[idx].vwc >= 5000)
         => TotalWater(sw'.layers, sw.numlayers)
              <= TotalWater(sw.layers, sw.numlayers) + 100]_vars

\* |a - b| <= tol
Within(a, b, tol) == a - b <= tol /\ b - a <= tol

\* C19: the day's sums start at zero when a day step begins; every
\* sub-interval that completes adds to each of them the layer's flux of that
\* sub-interval divided by numintervals; the day step reports the sums as
\* the layers' fluxes; and the reported netflux is the reported influx
\* minus the reported outflux, up to the rounding of the divisions (one
\* unit of the representation per sub-interval).
C19_ReportedFluxes ==
    [][/\ (phase = "ready" /\ phase' = "day"
            => cummfluxes' = ZeroFluxes(sw.numlayers))
       /\ (phase = "day" /\ phase' = "day" /\ i' = i + 1
            => \A idx \in 1..sw.numlayers : \A field \in FluxFields :
                 cummfluxes'[idx][field]
                   = cummfluxes[idx][field]
                     + sw'.pf[idx][field] \div sw.numintervals)
       /\ (phase = "day" /\ phase' = "ready"
            => \A idx \in 1..sw.numlayers :
                 /\ sw'.layers[idx].fluxes = cummfluxes[idx]
                 /\ Within(sw'.layers[idx].fluxes.netflux,
                           sw'.layers[idx].fluxes.influx
                             - sw'.layers[idx].fluxes.outflux,
                           sw.numintervals))]_vars

\* C19 witness: the second day step of an instance with two sub-intervals
\* has reported, for the first layer, fluxes none of which is zero and
\* which differ from those of the first day, with netflux = influx -
\* outflux up to the rounding.
C19_Witness ==
    /\ phase = "ready" /\ day = 2 /\ sw.numintervals = 2 /\ ValidGeometry
    /\ \A field \in FluxFields : sw.layers[1].fluxes[field] # 0
    /\ log[2].layers[1].fluxes = sw.layers[1].fluxes
    /\ log[1].layers[1].fluxes # sw.layers[1].fluxes
    /\ Within(sw.layers[1].fluxes.netflux,
              sw.layers[1].fluxes.influx - sw.layers[1].fluxes.outflux,
              sw.numintervals)

\* C20: a day step ends.  Inside it every step is one run of the flux
\* solver, which first re-derives the root zone and the water stress from
\* the layers as they are and counts one more run, never beyond
\* numintervals; the report comes after exactly numintervals runs.
C20_DayStepTerminates ==
    /\ [][/\ (phase = "day" /\ phase' = "day"
              => /\ i' = i + 1 /\ i' <= sw.numintervals
                 /\ sw'.prz = _rootzone_water(sw.layers, sw.rootdepth)
                 /\ sw'.waterstresses = _reduce_et(sw.layers, sw'.prz))
          /\ (phase = "day" /\ phase' = "ready" => i = sw.numintervals)]_vars
    /\ (phase = "day" ~> phase \in {"ready", "raised"})

\* C20 witness: a day step of two sub-intervals has reported, the root zone
\* of its last run being the one reported.
C20_Witness ==
    /\ phase = "ready" /\ day >= 1 /\ sw.numintervals = 2 /\ ValidGeometry
    /\ sw.numlayers = 2 /\ i = 0
    /\ sw.rootwater = sw.prz /\ sw.prz.wc > 0
    /\ Len(log) = day

\* A sub-interval completes in this step.
SubIntervalDone == phase = "day" /\ phase' = "day" /\ i' = i + 1

\* C21: a sub-interval that completes leaves on every layer the heads and
\* the conductivity of the vwc the layer had when it began; the outflux it
\* passes to a layer is the Darcy flux between the two layers as they were
\* when it began, less the transpiration, clipped on the water the upper
\* layer held when it began; and no step between two sub-intervals (the
\* begin and the report of a day step) changes a layer's vwc.
C21_ExplicitUpdate ==
    [][/\ (SubIntervalDone
            => \A idx \in 1..sw.numlayers :
                 /\ HeadsK(sw'.layers[idx])
                      = HeadsK(update_heads_k(sw.layers[idx]))
                 /\ idx > 1
                    => sw'.pf[idx].influx
                         = ClipOutflux(sw.layers[idx - 1],
                             sw'.pf[idx - 1].influx,
                             Mul(sw.layers[idx - 1].vwc,
                                 sw.layers[idx - 1].thick),
                             Darcy(update_heads_k(sw.layers[idx]),
                                   update_heads_k(sw.layers[idx - 1]))
                               - sw'.pf[idx].t))
       /\ (phase \in {"ready", "day"} /\ phase' \in {"ready", "day"}
              /\ phase' # phase
            => \A idx \in 1..sw.numlayers :
                 sw'.layers[idx].vwc = sw.layers[idx].vwc)]_vars

\* C21 witness: the second sub-interval of a day step on two layers has
\* completed; both layers hold a vwc whose heads differ from the ones they
\* carry, and water has passed between them.
C21_Witness ==
    /\ phase = "day" /\ i = 2 /\ sw.numlayers = 2 /\ ValidGeometry
    /\ \A idx \in 1..2 :
         HeadsK(sw.layers[idx]) # HeadsK(update_heads_k(sw.layers[idx]))
    /\ sw.pf[2].influx # 0
    /\ sw.pf[1].outflux = sw.pf[2].influx

\* The number of records of the file that was read.
Records == Len(datafile)

\* What indexing returns for record r of the file: the float of a file of
\* one value per line, the list of the line's floats otherwise.
RecordItem(r) ==
    [err |-> "none", scalar |-> Len(datafile[r]) = 1, value |-> datafile[r]]

\* C22: on an object read from a file of R records, dailydata[key] is
\* record ((key - 1) mod R) + 1 for every key >= 1, so that key and key + R
\* give the same, and a key < 1 raises an error.
C22_RewindingIndex ==
    dailydata # NoData /\ item # NoItem =>
      IF key >= 1
        THEN /\ item = RecordItem(((key - 1) % Records) + 1)
             /\ GetItem(dailydata, key + Records) = item
      ELSE item.err = "ValueError"

\* C22 witness: a file of three records of two values, all different, is
\* indexed past its end: key 5 returns the second record.
C22_Witness ==
    /\ dailydata # NoData /\ Records = 3 /\ dailydata.nset = 2
    /\ datafile[1] # datafile[2] /\ datafile[2] # datafile[3]
    /\ datafile[1] # datafile[3]
    /\ key = 5
    /\ item = RecordItem(2)

\* The water (m) layer idx is projected to hold by the sub-interval that
\* completes in this step: influx + wc - outflux with the final fluxes.
Projected(idx) ==
    sw'.pf[idx].influx + Mul(sw.layers[idx].vwc, sw.layers[idx].thick)
      - sw'.pf[idx].outflux

\* The outflux of layer idx before the clip of that sub-interval.
Unclipped(idx) ==
    IF idx < sw.numlayers
      THEN Darcy(update_heads_k(sw.layers[idx + 1]),
                 update_heads_k(sw.layers[idx])) - sw'.pf[idx + 1].t
    ELSE IF ~sw.has_watertable THEN update_heads_k(sw.layers[idx]).k
    ELSE _influx_from_watertable(update_heads_k(sw.layers[idx]))

\* C23: after a sub-interval that completes, the projected water of every
\* layer lies between 0.005 x thickness and saturation x thickness; where
\* the final outflux is not the unclipped one, the projection is the bound
\* that the unclipped projection had passed.
C23_ProjectionWithinBounds ==
    [][SubIntervalDone =>
         \A idx \in 1..sw.numlayers :
           LET drylmt == Mul(sw.layers[idx].thick, 5000)
               satlmt == Mul(sw.layers[idx].thick, sw.layers[idx].swc.sat)
               raw    == Projected(idx) + sw'.pf[idx].outflux
                           - Unclipped(idx)
           IN  /\ drylmt <= Projected(idx) /\ Projected(idx) <= satlmt
               /\ raw < drylmt => Projected(idx) = drylmt
               /\ raw > satlmt => Projected(idx) = satlmt
               /\ drylmt <= raw /\ raw <= satlmt
                    => sw'.pf[idx].outflux = Unclipped(idx)]_vars

\* C23 counterexample: after a sub-interval that completes, the projected
\* water of the first layer does not exceed saturation x thickness.
C23_Counterexample ==
    [][SubIntervalDone =>
         Projected(1) <= Mul(sw.layers[1].thick, sw.layers[1].swc.sat)]_vars

\* The statement of C23 on layers of positive thickness (it holds).
ProjectionOnValidGeometry ==
    [][SubIntervalDone /\ ValidGeometry =>
         \A idx \in 1..sw.numlayers :
           LET drylmt == Mul(sw.layers[idx].thick, 5000)
               satlmt == Mul(sw.layers[idx].thick, sw.layers[idx].swc.sat)
               raw    == Projected(idx) + sw'.pf[idx].outflux
                           - Unclipped(idx)
           IN  /\ drylmt <= Projected(idx) /\ Projected(idx) <= satlmt
               /\ raw < drylmt => Projected(idx) = drylmt
               /\ raw > satlmt => Projected(idx) = satlmt
               /\ drylmt <= raw /\ raw <= satlmt
                    => sw'.pf[idx].outflux = Unclipped(idx)]_vars

\* C24: in every state with an instance, whatever the root zone's vwc, the
\* transpiration stress factor is at least 0.01 and at most 1.
C24_StressFloor ==
    Constructed =>
      10000 <= sw.waterstresses.crop /\ sw.waterstresses.crop <= ONE

\* C24 counterexample: on layers of positive thickness, a root zone whose
\* vwc is above its wilting point has a transpiration stress factor of at
\* least 0.01.
C24_Counterexample ==
    Constructed /\ ValidGeometry /\ sw.prz.pwp < sw.prz.vwc =>
      10000 <= sw.waterstresses.crop

RECURSIVE SumWc(_, _)
\* The water (mm) reported for the first n layers: the sum of their wc.
SumWc(layers, n) == IF n = 0 THEN 0 ELSE SumWc(layers, n - 1) + layers[n].wc

\* C25: a layer whose vwc lies in [0.005, saturation] when a sub-interval
\* starts gets, at line 495, the value (wc + netflux / numintervals) / thick
\* itself: the max and the min of that line change nothing.  So, from the
\* second day step of an instance on, the wc (mm) a day step reports for a
\* layer differs from the one reported the day before by the reported
\* netflux x 1000, and the sum over the layers changes by (first layer's
\* influx - last layer's outflux) x 1000, up to the rounding of the
\* divisions by numintervals (one unit per layer and sub-interval).
C25_ClampInactive ==
    [][/\ (SubIntervalDone
            => \A idx \in 1..sw.numlayers :
                 InRange(sw.layers[idx]) =>
                   sw'.layers[idx].vwc
                     = CapVwcUncapped(
                         sw.layers[idx],
                         Mul(sw.layers[idx].vwc, sw.layers[idx].thick)
                           + sw'.pf[idx].netflux \div sw.numintervals))
       /\ (phase = "day" /\ phase' = "ready" /\ Len(log) >= 1
            => \E now \in {log'[Len(log')].layers} :
                 \E was \in {log[Len(log)].layers} :
                   /\ \A idx \in 1..sw.numlayers :
                        now[idx].wc - was[idx].wc
                          = now[idx].fluxes.netflux * 1000
                   /\ Within(SumWc(now, sw.numlayers)
                               - SumWc(was, sw.numlayers),
                             (now[1].fluxes.influx
                                - now[sw.numlayers].fluxes.outflux) * 1000,
                             1000 * sw.numintervals * sw.numlayers))]_vars

\* C25 witness: the second day step of an instance has returned; a layer
\* that held less water the day before ends the day at its saturation,
\* where the clip of the outflux has acted, its wc (mm) has changed by its
\* reported netflux x 1000, and water has entered the first layer and left
\* the last.
C25_Witness ==
    /\ phase = "ready" /\ Len(log) = 2
    /\ log[2].layers[1].fluxes.influx # 0
    /\ log[2].layers[sw.numlayers].fluxes.outflux # 0
    /\ \E idx \in 1..sw.numlayers :
         /\ sw.layers[idx].vwc = sw.layers[idx].swc.sat
         /\ log[2].layers[idx].wc > log[1].layers[idx].wc
         /\ log[2].layers[idx].wc - log[1].layers[idx].wc
              = log[2].layers[idx].fluxes.netflux * 1000

\* C26: in every day step, with rain >= 0 and lai >= 0, the net rainfall is
\* at most the rain and at least 0.8 x rain.
C26_NetRainfallBounded ==
    phase = "day" /\ args.rain >= 0 /\ args.lai >= 0 =>
      /\ sw.netrain <= args.rain
      /\ sw.netrain >= Mul(800000, args.rain)

\* C26 counterexample: in no day step with rain does the net rainfall
\* exceed the rain.
C26_Counterexample ==
    phase = "day" /\ args.rain > 0 => sw.netrain <= args.rain

\* The lower bound of C26 alone (it holds).
NetRainfallAtLeast ==
    phase = "day" /\ args.rain >= 0 /\ args.lai >= 0 =>
      sw.netrain >= Mul(800000, args.rain)

\* C27: without a water table, after every sub-interval that completes the
\* last layer's outflux is >= 0, also where the clip of lines 473-481 has
\* replaced it.
C27_NoInflowFromBelow ==
    [][SubIntervalDone /\ ~sw.has_watertable =>
         sw'.pf[sw.numlayers].outflux >= 0]_vars

\* C27 counterexample: without a water table, on layers of positive
\* thickness whose vwc is in [0.005, saturation] when the sub-interval
\* starts, the last layer's outflux after the sub-interval is >= 0.
C27_Counterexample ==
    [][/\ SubIntervalDone /\ ~sw.has_watertable /\ ValidGeometry
       /\ \A idx \in 1..sw.numlayers : InRange(sw.layers[idx])
       => sw'.pf[sw.numlayers].outflux >= 0]_vars

\* The statement of C28 about the sub-interval that this step completes.
NonNegativeShares ==
    SubIntervalDone =>
      \A idx \in 1..sw.numlayers :
        /\ sw'.pf[idx].t >= 0
        /\ idx > 1 /\ sw.layers[idx - 1].accthick >= sw.rootdepth
             => sw'.pf[idx].t = 0

\* C28: in every sub-interval that completes, every layer's transpiration
\* share is >= 0, and a layer under a layer whose accthick is >= rootdepth
\* has a share of exactly 0.
C28_TranspirationShares == [][NonNegativeShares]_vars

\* C28 counterexample: in no sub-interval that completes is the first
\* layer's transpiration share negative.
C28_Counterexample == [][SubIntervalDone => sw'.pf[1].t >= 0]_vars

\* The statement of C28 on layers of positive thickness (it holds).
SharesOnValidGeometry == [][ValidGeometry => NonNegativeShares]_vars

\* What a layer gets in initialize_layer and keeps: its geometry, texture,
\* characteristics, saturated conductivity, gravity head and neighbours.
Static(layer) ==
    [thick |-> layer.thick, texture |-> layer.texture, swc |-> layer.swc,
     ksat |-> layer.ksat, accthick |-> layer.accthick,
     depth |-> layer.depth, gravity |-> layer.gravity,
     prev |-> layer.prev, next |-> layer.next]

\* C29: no step of a day step (its start, a sub-interval that completes or
\* raises, its return) changes a layer's thick, texture, swc, ksat,
\* accthick, depth, gravity, prev or next, or the instance's numlayers,
\* numintervals or has_watertable.
C29_StaticUnchanged ==
    [][Constructed /\ built' = built =>
         /\ sw'.numlayers = sw.numlayers
         /\ sw'.numintervals = sw.numintervals
         /\ sw'.has_watertable = sw.has_watertable
         /\ \A idx \in 1..sw.numlayers :
              Static(sw'.layers[idx]) = Static(sw.layers[idx])]_vars

\* C29 witness: a day step of two sub-intervals on two layers has returned
\* and has changed the water, the matric head and the conductivity of the
\* first layer and the root depth, while the layers are still linked and the
\* gravity heads are the depths.
C29_Witness ==
    /\ phase = "ready" /\ Len(log) = 1
    /\ sw.numlayers = 2 /\ sw.numintervals = 2
    /\ log[1].layers[1].fluxes.netflux # 0
    /\ sw.layers[1].vwc # ReadLayers(ini, 0).layers[1].vwc
    /\ sw.layers[1].matric # ReadLayers(ini, 0).layers[1].matric
    /\ sw.layers[1].k # ReadLayers(ini, 0).layers[1].k
    /\ sw.rootdepth # ini.rootdepth
    /\ sw.layers[1].next = 2 /\ sw.layers[2].prev = 1
    /\ sw.layers[1].gravity = sw.layers[1].depth
    /\ sw.layers[2].gravity = sw.layers[2].depth

====
